---- MODULE Spec2Model ----
(***************************************************************************)
(* Model of official/vision/beta/modeling/decoders/factory.py:             *)
(* build_decoder, the configuration-driven decoder factory.                *)
(*                                                                         *)
(* One behaviour is one invocation of build_decoder.  The caller's         *)
(* arguments are chosen in Init; the actions are the statements of the     *)
(* function body in program order (lines 45, 46, 47, the if/elif chain of  *)
(* lines 49-108 and the return of line 110).                               *)
(*                                                                         *)
(* Python values are modelled as records carrying their class in the       *)
(* field cls.  Floating point settings are forwarded, never computed       *)
(* with, so they are modelled as scaled integers.                          *)
(***************************************************************************)
EXTENDS Integers, Sequences, FiniteSets, TLC

VARIABLES
  input_specs,            \* argument: {level: TensorShape}
  model_config,           \* argument: the configuration object
  l2_arg,                 \* what the caller passed for l2_regularizer
  l2_regularizer,         \* the parameter as bound inside the function
  decoder_type,           \* local, line 45
  decoder_cfg,            \* local, line 46
  norm_activation_config, \* local, line 47
  decoder,                \* local, lines 50-106
  pc,                     \* position in the function body
  result,                 \* value handed to the caller by line 110
  error,                  \* exception leaving build_decoder, if any
  calls,                  \* decoder constructor invocations, in order
  trace                   \* order of configuration reads and comparisons

vars == <<input_specs, model_config, l2_arg, l2_regularizer, decoder_type,
          decoder_cfg, norm_activation_config, decoder, pc, result, error,
          calls, trace>>

inputs == <<input_specs, model_config, l2_arg>>

locals == <<decoder_type, decoder_cfg, norm_activation_config, decoder>>

-----------------------------------------------------------------------------
(* Bounds of the explored input space.                                     *)

\* number of distinct contents of the per-type sub-records
NumCfgVariants == 2

\* number of distinct contents of model_config.norm_activation
NumNormVariants == 2

\* number of distinct min_level / max_level values
NumLevels == 2

CfgVariants == 1..NumCfgVariants

NormVariants == 1..NumNormVariants

MinLevels == 2..(1 + NumLevels)

MaxLevels == 6..(5 + NumLevels)

-----------------------------------------------------------------------------
(* Python values.                                                          *)

NoneVal == [cls |-> "NoneType"]

Unbound == [cls |-> "unbound"]

NoError == [kind |-> "none", origin |-> "none", arg |-> ""]

\* ValueError('Decoder {!r} not implement'.format(decoder_type)), line 108
UnknownTypeError(t) ==
  [kind |-> "ValueError", origin |-> "build_decoder", arg |-> t]

\* an exception raised inside model_config.decoder.get()
LookupFailure(t) ==
  [kind |-> "ValueError", origin |-> "OneOfConfig.get", arg |-> t]

\* an exception raised inside a decoder constructor
ConstructorFailure(c) ==
  [kind |-> "Exception", origin |-> "constructor", arg |-> c]

KnownTypes == {"identity", "fpn", "nasfpn", "aspp", "mrfm"}

ConstructingTypes == {"fpn", "nasfpn", "aspp", "mrfm"}

\* discriminators that match none of the comparisons of lines 49-88
UnknownTypes == {"FPN", "", "unet"}

DecoderTypes == KnownTypes \cup UnknownTypes

Regularizers == {"None", "l2_a"}

\* the caller may leave l2_regularizer out
L2Args == Regularizers \cup {"omitted"}

\* {level: TensorShape} from a backbone
InputSpecs ==
  { ("3" :> <<64, 64, 256>>) @@ ("4" :> <<32, 32, 512>>),
    ("3" :> <<80, 80, 128>>) @@ ("4" :> <<40, 40, 256>>) @@
      ("5" :> <<20, 20, 512>>) }

\* model_config.decoder: the discriminator and one sub-record per type.
\* Same-named fields of different sub-records hold different values.
DecoderConfig(t, v) ==
  [type     |-> t,
   identity |-> [cls |-> "Identity"],
   fpn      |-> [cls |-> "FPN",
                 num_filters |-> 256 + v,
                 use_separable_conv |-> (v % 2 = 0)],
   nasfpn   |-> [cls |-> "NASFPN",
                 num_filters |-> 128 + v,
                 num_repeats |-> 4 + v,
                 use_separable_conv |-> (v % 2 = 1)],
   aspp     |-> [cls |-> "ASPP",
                 level |-> 3 + v,
                 dilation_rates |-> <<6 * v, 12 * v>>,
                 num_filters |-> 64 + v,
                 pool_kernel_size |-> <<v, v + 1>>,
                 dropout_rate |-> v],
   mrfm     |-> [cls |-> "MRFM",
                 fml_from_layer |-> <<"3", "4", "">>,
                 fml_layer_depth |-> <<0 - 1, 0 - 1, 512 * v>>,
                 depth_multiplier |-> v,
                 min_depth |-> 16 * v,
                 insert_1x1_conv |-> (v % 2 = 0),
                 kernel_size |-> 2 + v,
                 use_explicit_padding |-> (v % 2 = 1),
                 use_depthwise |-> (v % 2 = 0)]]

NormActivation(w) ==
  [activation    |-> IF w % 2 = 1 THEN "relu" ELSE "swish",
   use_sync_bn   |-> (w % 2 = 0),
   norm_momentum |-> 990 + w,
   norm_epsilon  |-> w]

ModelConfig(t, v, w, lo, hi) ==
  [decoder         |-> DecoderConfig(t, v),
   min_level       |-> lo,
   max_level       |-> hi,
   norm_activation |-> NormActivation(w)]

ModelConfigs ==
  { ModelConfig(t, v, w, lo, hi) :
      t \in DecoderTypes, v \in CfgVariants, w \in NormVariants,
      lo \in MinLevels, hi \in MaxLevels }

-----------------------------------------------------------------------------
(* External collaborators.                                                 *)

\* keys of the feature_map_layout mapping
FROM_LAYER == "from_layer"

LAYER_DEPTH == "layer_depth"

\* decoders.FPN(**kw) and friends: the object a constructor produces
FPN(kw) == [cls |-> "FPN", kwargs |-> kw]

NASFPN(kw) == [cls |-> "NASFPN", kwargs |-> kw]

ASPP(kw) == [cls |-> "ASPP", kwargs |-> kw]

MRFM(kw) == [cls |-> "MRFM", kwargs |-> kw]

\* model_config.decoder.get(): the sub-record selected by the
\* discriminator, when there is one
HasSubRecord(dec) == dec.type \in (DOMAIN dec) \ {"type"}

OneOfGet(dec) == dec[dec.type]

-----------------------------------------------------------------------------
(* Keyword arguments built by each constructing branch.                    *)

\* line 31: l2_regularizer = None
DefaultL2(a) == IF a = "omitted" THEN "None" ELSE a

\* lines 52-62
FPNKwargs(specs, cfg, dcfg, na, l2) ==
  [input_specs        |-> specs,
   min_level          |-> cfg.min_level,
   max_level          |-> cfg.max_level,
   num_filters        |-> dcfg.num_filters,
   use_separable_conv |-> dcfg.use_separable_conv,
   activation         |-> na.activation,
   use_sync_bn        |-> na.use_sync_bn,
   norm_momentum      |-> na.norm_momentum,
   norm_epsilon       |-> na.norm_epsilon,
   kernel_regularizer |-> l2]

\* NASFPNKwargs reading num_filters from the fpn sub-record
NASFPNKwargs_FpnFilters(specs, cfg, dcfg, na, l2) ==
  [input_specs        |-> specs,
   min_level          |-> cfg.min_level,
   max_level          |-> cfg.max_level,
   num_filters        |-> cfg.decoder.fpn.num_filters,
   num_repeats        |-> dcfg.num_repeats,
   use_separable_conv |-> dcfg.use_separable_conv,
   activation         |-> na.activation,
   use_sync_bn        |-> na.use_sync_bn,
   norm_momentum      |-> na.norm_momentum,
   norm_epsilon       |-> na.norm_epsilon,
   kernel_regularizer |-> l2]

\* lines 64-75
NASFPNKwargs(specs, cfg, dcfg, na, l2) ==
  [input_specs        |-> specs,
   min_level          |-> cfg.min_level,
   max_level          |-> cfg.max_level,
   num_filters        |-> dcfg.num_filters,
   num_repeats        |-> dcfg.num_repeats,
   use_separable_conv |-> dcfg.use_separable_conv,
   activation         |-> na.activation,
   use_sync_bn        |-> na.use_sync_bn,
   norm_momentum      |-> na.norm_momentum,
   norm_epsilon       |-> na.norm_epsilon,
   kernel_regularizer |-> l2]

\* ASPPKwargs with norm_momentum and norm_epsilon exchanged
ASPPKwargs_SwappedNorm(specs, cfg, dcfg, na, l2) ==
  [level              |-> dcfg.level,
   dilation_rates     |-> dcfg.dilation_rates,
   num_filters        |-> dcfg.num_filters,
   pool_kernel_size   |-> dcfg.pool_kernel_size,
   dropout_rate       |-> dcfg.dropout_rate,
   use_sync_bn        |-> na.use_sync_bn,
   norm_momentum      |-> na.norm_epsilon,
   norm_epsilon       |-> na.norm_momentum,
   activation         |-> na.activation,
   kernel_regularizer |-> l2]

\* ASPPKwargs also forwarding input_specs, min_level and max_level
ASPPKwargs_WithLevels(specs, cfg, dcfg, na, l2) ==
  [input_specs        |-> specs,
   min_level          |-> cfg.min_level,
   max_level          |-> cfg.max_level,
   level              |-> dcfg.level,
   dilation_rates     |-> dcfg.dilation_rates,
   num_filters        |-> dcfg.num_filters,
   pool_kernel_size   |-> dcfg.pool_kernel_size,
   dropout_rate       |-> dcfg.dropout_rate,
   use_sync_bn        |-> na.use_sync_bn,
   norm_momentum      |-> na.norm_momentum,
   norm_epsilon       |-> na.norm_epsilon,
   activation         |-> na.activation,
   kernel_regularizer |-> l2]

\* lines 77-87
ASPPKwargs(specs, cfg, dcfg, na, l2) ==
  [level              |-> dcfg.level,
   dilation_rates     |-> dcfg.dilation_rates,
   num_filters        |-> dcfg.num_filters,
   pool_kernel_size   |-> dcfg.pool_kernel_size,
   dropout_rate       |-> dcfg.dropout_rate,
   use_sync_bn        |-> na.use_sync_bn,
   norm_momentum      |-> na.norm_momentum,
   norm_epsilon       |-> na.norm_epsilon,
   activation         |-> na.activation,
   kernel_regularizer |-> l2]

\* lines 89-106
MRFMKwargs(specs, cfg, dcfg, na, l2) ==
  [input_specs          |-> specs,
   feature_map_layout   |-> (FROM_LAYER :> dcfg.fml_from_layer) @@
                            (LAYER_DEPTH :> dcfg.fml_layer_depth),
   depth_multiplier     |-> dcfg.depth_multiplier,
   min_depth            |-> dcfg.min_depth,
   insert_1x1_conv      |-> dcfg.insert_1x1_conv,
   kernel_size          |-> dcfg.kernel_size,
   use_explicit_padding |-> dcfg.use_explicit_padding,
   use_depthwise        |-> dcfg.use_depthwise,
   activation           |-> na.activation,
   use_sync_bn          |-> na.use_sync_bn,
   norm_momentum        |-> na.norm_momentum,
   norm_epsilon         |-> na.norm_epsilon,
   kernel_regularizer   |-> l2]

-----------------------------------------------------------------------------
(* The invocation.                                                         *)

Init ==
  /\ input_specs \in InputSpecs
  /\ model_config \in ModelConfigs
  /\ l2_arg \in L2Args
  /\ l2_regularizer = "unbound"
  /\ decoder_type = "unbound"
  /\ decoder_cfg = Unbound
  /\ norm_activation_config = Unbound
  /\ decoder = Unbound
  /\ pc = "call"
  /\ result = Unbound
  /\ error = NoError
  /\ calls = <<>>
  /\ trace = <<>>

\* lines 28-32: parameters are bound, the default fills an omitted
\* l2_regularizer
Call ==
  /\ pc = "call"
  /\ l2_regularizer' = DefaultL2(l2_arg)
  /\ pc' = "l45"
  /\ UNCHANGED <<inputs, locals, result, error, calls, trace>>

\* ReadDecoderType returning None for 'identity' before the lookups
ReadDecoderType_EarlyIdentity ==
  /\ pc = "l45"
  /\ decoder_type' = model_config.decoder.type
  /\ IF model_config.decoder.type = "identity"
       THEN /\ trace' = trace \o <<"type", "compare">>
            /\ decoder' = NoneVal
            /\ pc' = "l110"
       ELSE /\ trace' = Append(trace, "type")
            /\ pc' = "l46"
            /\ UNCHANGED decoder
  /\ UNCHANGED <<inputs, l2_regularizer, decoder_cfg,
                 norm_activation_config, result, error, calls>>

\* line 45: decoder_type = model_config.decoder.type
ReadDecoderType ==
  /\ pc = "l45"
  /\ decoder_type' = model_config.decoder.type
  /\ trace' = Append(trace, "type")
  /\ pc' = "l46"
  /\ UNCHANGED <<inputs, l2_regularizer, decoder_cfg,
                 norm_activation_config, decoder, result, error, calls>>

\* line 46: decoder_cfg = model_config.decoder.get()
\* With no sub-record under the discriminator the lookup either yields
\* None or raises; the exception leaves build_decoder unhandled.
GetDecoderCfg ==
  /\ pc = "l46"
  /\ trace' = Append(trace, "get")
  /\ \/ /\ HasSubRecord(model_config.decoder)
        /\ decoder_cfg' = OneOfGet(model_config.decoder)
        /\ pc' = "l47"
        /\ UNCHANGED error
     \/ /\ ~HasSubRecord(model_config.decoder)
        /\ \/ /\ decoder_cfg' = NoneVal
              /\ pc' = "l47"
              /\ UNCHANGED error
           \/ /\ error' = LookupFailure(model_config.decoder.type)
              /\ pc' = "raised"
              /\ UNCHANGED decoder_cfg
  /\ UNCHANGED <<inputs, l2_regularizer, decoder_type,
                 norm_activation_config, decoder, result, calls>>

\* ReadNormActivation overriding use_sync_bn in the caller's configuration
ReadNormActivation_Mutating ==
  /\ pc = "l47"
  /\ model_config' =
       [model_config EXCEPT !.norm_activation.use_sync_bn = FALSE]
  /\ norm_activation_config' = model_config'.norm_activation
  /\ trace' = Append(trace, "norm_activation")
  /\ pc' = "l49"
  /\ UNCHANGED <<input_specs, l2_arg, l2_regularizer, decoder_type,
                 decoder_cfg, decoder, result, error, calls>>

\* line 47: norm_activation_config = model_config.norm_activation
ReadNormActivation ==
  /\ pc = "l47"
  /\ norm_activation_config' = model_config.norm_activation
  /\ trace' = Append(trace, "norm_activation")
  /\ pc' = "l49"
  /\ UNCHANGED <<inputs, l2_regularizer, decoder_type, decoder_cfg,
                 decoder, result, error, calls>>

\* Construct calling the constructor a second time after a failure
Construct_Retry(name, kw, obj) ==
  \/ /\ calls' = Append(calls, [ctor |-> name, kwargs |-> kw])
     /\ decoder' = obj
     /\ pc' = "l110"
     /\ UNCHANGED error
  \/ /\ calls' = calls \o <<[ctor |-> name, kwargs |-> kw],
                            [ctor |-> name, kwargs |-> kw]>>
     /\ \/ /\ decoder' = obj
           /\ pc' = "l110"
           /\ UNCHANGED error
        \/ /\ error' = ConstructorFailure(name)
           /\ pc' = "raised"
           /\ UNCHANGED decoder

\* a constructor call of a branch: the call is made once; it either
\* produces the object, which is assigned to decoder, or raises, and the
\* exception leaves build_decoder unhandled
Construct(name, kw, obj) ==
  /\ calls' = Append(calls, [ctor |-> name, kwargs |-> kw])
  /\ \/ /\ decoder' = obj
        /\ pc' = "l110"
        /\ UNCHANGED error
     \/ /\ error' = ConstructorFailure(name)
        /\ pc' = "raised"
        /\ UNCHANGED decoder

\* BranchIdentity missing: 'identity' treated as an unknown type
BranchIdentity_Raises ==
  /\ pc = "l49"
  /\ decoder_type = "identity"
  /\ trace' = Append(trace, "compare")
  /\ error' = UnknownTypeError(decoder_type)
  /\ pc' = "raised"
  /\ UNCHANGED <<inputs, l2_regularizer, locals, result, calls>>

\* lines 49-50
BranchIdentity ==
  /\ pc = "l49"
  /\ decoder_type = "identity"
  /\ trace' = Append(trace, "compare")
  /\ decoder' = NoneVal
  /\ pc' = "l110"
  /\ UNCHANGED <<inputs, l2_regularizer, decoder_type, decoder_cfg,
                 norm_activation_config, result, error, calls>>

\* lines 51-62
BranchFPN ==
  /\ pc = "l49"
  /\ decoder_type # "identity"
  /\ decoder_type = "fpn"
  /\ trace' = Append(trace, "compare")
  /\ LET kw == FPNKwargs(input_specs, model_config, decoder_cfg,
                         norm_activation_config, l2_regularizer)
     IN  Construct("FPN", kw, FPN(kw))
  /\ UNCHANGED <<inputs, l2_regularizer, decoder_type, decoder_cfg,
                 norm_activation_config, result>>

\* BranchNASFPN calling the FPN constructor
BranchNASFPN_CallsFPN ==
  /\ pc = "l49"
  /\ decoder_type \notin {"identity", "fpn"}
  /\ decoder_type = "nasfpn"
  /\ trace' = Append(trace, "compare")
  /\ LET kw == FPNKwargs(input_specs, model_config, decoder_cfg,
                         norm_activation_config, l2_regularizer)
     IN  Construct("FPN", kw, FPN(kw))
  /\ UNCHANGED <<inputs, l2_regularizer, decoder_type, decoder_cfg,
                 norm_activation_config, result>>

\* lines 63-75
BranchNASFPN ==
  /\ pc = "l49"
  /\ decoder_type \notin {"identity", "fpn"}
  /\ decoder_type = "nasfpn"
  /\ trace' = Append(trace, "compare")
  /\ LET kw == NASFPNKwargs(input_specs, model_config, decoder_cfg,
                            norm_activation_config, l2_regularizer)
     IN  Construct("NASFPN", kw, NASFPN(kw))
  /\ UNCHANGED <<inputs, l2_regularizer, decoder_type, decoder_cfg,
                 norm_activation_config, result>>

\* lines 76-87
BranchASPP ==
  /\ pc = "l49"
  /\ decoder_type \notin {"identity", "fpn", "nasfpn"}
  /\ decoder_type = "aspp"
  /\ trace' = Append(trace, "compare")
  /\ LET kw == ASPPKwargs(input_specs, model_config, decoder_cfg,
                          norm_activation_config, l2_regularizer)
     IN  Construct("ASPP", kw, ASPP(kw))
  /\ UNCHANGED <<inputs, l2_regularizer, decoder_type, decoder_cfg,
                 norm_activation_config, result>>

\* lines 88-106
BranchMRFM ==
  /\ pc = "l49"
  /\ decoder_type \notin {"identity", "fpn", "nasfpn", "aspp"}
  /\ decoder_type = "mrfm"
  /\ trace' = Append(trace, "compare")
  /\ LET kw == MRFMKwargs(input_specs, model_config, decoder_cfg,
                          norm_activation_config, l2_regularizer)
     IN  Construct("MRFM", kw, MRFM(kw))
  /\ UNCHANGED <<inputs, l2_regularizer, decoder_type, decoder_cfg,
                 norm_activation_config, result>>

\* lines 107-108
BranchElse ==
  /\ pc = "l49"
  /\ decoder_type \notin {"identity", "fpn", "nasfpn", "aspp", "mrfm"}
  /\ trace' = Append(trace, "compare")
  /\ error' = UnknownTypeError(decoder_type)
  /\ pc' = "raised"
  /\ UNCHANGED <<inputs, l2_regularizer, locals, result, calls>>

\* line 110: return decoder
Return ==
  /\ pc = "l110"
  /\ result' = decoder
  /\ pc' = "done"
  /\ UNCHANGED <<inputs, l2_regularizer, locals, error, calls, trace>>

Next ==
  \/ Call
  \/ ReadDecoderType
  \/ GetDecoderCfg
  \/ ReadNormActivation
  \/ BranchIdentity
  \/ BranchFPN
  \/ BranchNASFPN
  \/ BranchASPP
  \/ BranchMRFM
  \/ BranchElse
  \/ Return

Spec == Init /\ [][Next]_vars

Returned == pc = "done"

Raised == pc = "raised"

Finished == Returned \/ Raised

TheType == model_config.decoder.type

TheSubRecord == model_config.decoder[TheType]

TheNorm == model_config.norm_activation

Called(name) == Len(calls) >= 1 /\ calls[1].ctor = name

Range(q) == { q[i] : i \in 1..Len(q) }

-----------------------------------------------------------------------------
(* Claims.                                                                 *)

\* the constructor named after each constructing discriminator
CtorOf ==
  ("fpn" :> "FPN") @@ ("nasfpn" :> "NASFPN") @@ ("aspp" :> "ASPP") @@
  ("mrfm" :> "MRFM")

\* C1: when build_decoder returns for discriminator fpn, nasfpn, aspp or
\* mrfm, the returned value is the object produced by the single call of
\* the correspondingly named constructor (FPN, NASFPN, ASPP, MRFM), and
\* no differently named constructor was called.
C1_RoutesToNamedConstructor ==
  (Returned /\ TheType \in ConstructingTypes) =>
    /\ Len(calls) = 1
    /\ calls[1].ctor = CtorOf[TheType]
    /\ result = [cls |-> CtorOf[TheType], kwargs |-> calls[1].kwargs]
    /\ \A i \in 1..Len(calls) : calls[i].ctor = CtorOf[TheType]

C1_Witness ==
  /\ Returned
  /\ TheType = "nasfpn"
  /\ result.cls = "NASFPN"
  /\ Called("NASFPN")

C4_ReturnsModelInstance ==
  Returned => result.cls \in {"FPN", "NASFPN", "ASPP", "MRFM"}

\* C5: in each constructing branch the constructor receives activation,
\* use_sync_bn, norm_momentum and norm_epsilon equal to the same-named
\* fields of model_config.norm_activation, and kernel_regularizer equal
\* to the caller's l2_regularizer, None when the caller omitted it.
C5_SharedSettingsForwarded ==
  \A i \in 1..Len(calls) :
    /\ calls[i].kwargs.activation = TheNorm.activation
    /\ calls[i].kwargs.use_sync_bn = TheNorm.use_sync_bn
    /\ calls[i].kwargs.norm_momentum = TheNorm.norm_momentum
    /\ calls[i].kwargs.norm_epsilon = TheNorm.norm_epsilon
    /\ calls[i].kwargs.kernel_regularizer =
         (IF l2_arg = "omitted" THEN "None" ELSE l2_arg)

C5_Witness ==
  /\ Called("ASPP")
  /\ l2_arg = "omitted"
  /\ calls[1].kwargs.kernel_regularizer = "None"
  /\ calls[1].kwargs.norm_momentum = TheNorm.norm_momentum

\* the per-type fields each constructor is given
PerTypeFields ==
  ("FPN" :> {"num_filters", "use_separable_conv"}) @@
  ("NASFPN" :> {"num_filters", "num_repeats", "use_separable_conv"}) @@
  ("ASPP" :> {"level", "dilation_rates", "num_filters",
              "pool_kernel_size", "dropout_rate"}) @@
  ("MRFM" :> {"depth_multiplier", "min_depth", "insert_1x1_conv",
              "kernel_size", "use_explicit_padding", "use_depthwise"})

\* C6: every per-type argument of the constructor call equals the
\* same-named field of the sub-record of the chosen type; MRFM also gets
\* a feature_map_layout with exactly the two entries
\* FROM_LAYER -> fml_from_layer and LAYER_DEPTH -> fml_layer_depth.
C6_PerTypeFieldsForwarded ==
  \A i \in 1..Len(calls) :
    /\ calls[i].ctor = CtorOf[TheType]
    /\ \A f \in PerTypeFields[calls[i].ctor] :
         /\ f \in DOMAIN calls[i].kwargs
         /\ calls[i].kwargs[f] = TheSubRecord[f]
    /\ calls[i].ctor = "MRFM" =>
         /\ DOMAIN calls[i].kwargs.feature_map_layout =
              {"from_layer", "layer_depth"}
         /\ calls[i].kwargs.feature_map_layout["from_layer"] =
              model_config.decoder.mrfm.fml_from_layer
         /\ calls[i].kwargs.feature_map_layout["layer_depth"] =
              model_config.decoder.mrfm.fml_layer_depth

C6_Witness ==
  /\ Called("MRFM")
  /\ Returned
  /\ calls[1].kwargs.min_depth = model_config.decoder.mrfm.min_depth
  /\ Cardinality(DOMAIN calls[1].kwargs.feature_map_layout) = 2

\* C7: an invocation makes at most one constructor call; once finished
\* it has made exactly one for fpn, nasfpn, aspp and mrfm, also when the
\* constructor failed, and none for identity or an unknown discriminator.
C7_AtMostOneConstruction ==
  /\ Len(calls) <= 1
  /\ (Finished /\ TheType \in ConstructingTypes) => Len(calls) = 1
  /\ (TheType \notin ConstructingTypes) => Len(calls) = 0

C7_Witness ==
  /\ Raised
  /\ error.origin = "constructor"
  /\ Len(calls) = 1

\* C8: no step of build_decoder changes input_specs, model_config or the
\* l2_regularizer the caller passed, and once bound the parameter
\* l2_regularizer keeps its value.
C8_InputsReadOnly ==
  [][/\ input_specs' = input_specs
     /\ model_config' = model_config
     /\ l2_arg' = l2_arg
     /\ (pc # "call" => l2_regularizer' = l2_regularizer)]_vars

C8_Witness ==
  /\ Raised
  /\ error.origin = "build_decoder"
  /\ model_config.norm_activation.use_sync_bn
  /\ l2_regularizer = "l2_a"

\* C9: FPN and NASFPN receive input_specs, min_level and max_level
\* unchanged; MRFM receives input_specs but neither level; ASPP receives
\* none of the three, and its arguments stay the same when input_specs,
\* min_level and max_level are replaced by any other values.
C9_LevelsAndSpecsForwarding ==
  \A i \in 1..Len(calls) :
    LET kw == calls[i].kwargs
        c  == calls[i].ctor
    IN  /\ c \in {"FPN", "NASFPN"} =>
             /\ {"input_specs", "min_level", "max_level"} \subseteq DOMAIN kw
             /\ kw.input_specs = input_specs
             /\ kw.min_level = model_config.min_level
             /\ kw.max_level = model_config.max_level
        /\ c = "MRFM" =>
             /\ "input_specs" \in DOMAIN kw
             /\ kw.input_specs = input_specs
             /\ {"min_level", "max_level"} \cap DOMAIN kw = {}
        /\ c = "ASPP" =>
             /\ {"input_specs", "min_level", "max_level"} \cap DOMAIN kw = {}
             /\ \A s \in InputSpecs, lo \in MinLevels, hi \in MaxLevels :
                  ASPPKwargs(s,
                             [model_config EXCEPT !.min_level = lo,
                                                  !.max_level = hi],
                             decoder_cfg, norm_activation_config,
                             l2_regularizer) = kw

C9_Witness ==
  /\ Called("ASPP")
  /\ Returned
  /\ model_config.min_level = 3
  /\ model_config.max_level = 7

\* C10: the discriminator is read first, then the sub-record lookup and
\* the norm_activation read happen once each, and only then is the
\* discriminator compared; the lookups happen for every discriminator,
\* and a failing sub-record lookup ends the call before any comparison,
\* so that the unknown-type error is not raised.
C10_LookupsBeforeDispatch ==
  /\ pc = "l49" => trace = <<"type", "get", "norm_activation">>
  /\ "compare" \in Range(trace) =>
       trace = <<"type", "get", "norm_activation", "compare">>
  /\ (Returned \/ pc = "l110") =>
       trace = <<"type", "get", "norm_activation", "compare">>
  /\ Raised =>
       IF error.origin = "OneOfConfig.get"
         THEN trace = <<"type", "get">>
         ELSE trace = <<"type", "get", "norm_activation", "compare">>
  /\ error = UnknownTypeError(TheType) => decoder_cfg # Unbound

C10_Witness ==
  /\ Raised
  /\ error.origin = "OneOfConfig.get"
  /\ trace = <<"type", "get">>
  /\ TheType = "FPN"
====
